---- MODULE Spec2Model ----
(***************************************************************************)
(* State machine of the multi-wallet manager (MultiWalletManager,          *)
(* src/unnamed/part_002) together with the part of the wallet facade       *)
(* (Wallet, src/src/lib/wallet.js) and of the payment asset (WalletPay,    *)
(* src/src/lib/wallet-pay.js) that the manager drives.                     *)
(*                                                                         *)
(* Every public operation of the manager is one action.  An operation that *)
(* throws is still a step: it keeps the mutations made before the throw    *)
(* and records the failure in `last`.  External collaborators (the store,  *)
(* the wallet loader, the asset backends) resolve or reject as the input   *)
(* `fault` / `out` of the action says.                                     *)
(***************************************************************************)
EXTENDS Naturals, Sequences, FiniteSets, Bags, TLC

(***************************************************************************)
(* Bounds of the model.                                                    *)
(***************************************************************************)
\* Wallet facades the loader may construct in one run.
MaxFacades == 2
\* Event handlers attached to emitters at one time.
MaxListeners == 2
\* destroy() invocations followed per facade.
MaxDestroys == 2
\* part_002:3 sets MAX_SUB_SIZE = 10000; the model scales the ceiling down so
\* that the subscription map can be filled.
MAX_SUB_SIZE == 2

(***************************************************************************)
(* Input universes.                                                        *)
(***************************************************************************)
\* opts.name as passed to createWallet; "" is an unset name.
NameOpts == {"", "default", "b"}
\* req.name / names passed to loadWallet and removeWallet.
WalletNames == {"default", "b"}
\* Namespace keys of the asset registry every loaded facade carries.
Assets == <<"btc">>
\* walletLoader.bootstrapEvents.pay
BootstrapEvents == <<"new-tx">>
\* Event names a caller subscribes to.
EventNames == {"new-tx"}
\* Values an asset method resolves with (it rejects with "e1").
Values == {"v1"}

VARIABLES
  storeOpen,   \* the manager's store has been init()ed and not closed
  walletList,  \* store key 'wallets': the persisted index
  walletExp,   \* store keys 'wallet-<name>': name -> export record
  _wallets,    \* this._wallets: insertion-ordered Map name -> facade
  facades,     \* every facade the loader constructed, by identity
  _subs,       \* this._subs: Map eventKey -> handler
  listeners,   \* handlers attached to the wallet / asset emitters (a bag)
  last,        \* the last operation: its request and its outcome
  created,     \* history: the names of the createWallet calls that succeeded
  inflight,    \* callWallet operations suspended in their lazy load
  wal,         \* one Wallet facade driven directly (wallet.js)
  _tokens      \* WalletPay._tokens of one payment asset: Map name -> token

vars == <<storeOpen, walletList, walletExp, _wallets, facades, _subs,
          listeners, last, created, inflight, wal, _tokens>>

\* What an operation of the manager that is not suspended leaves alone.
others == <<inflight, wal, _tokens>>

(***************************************************************************)
(* Requests and outcomes.                                                  *)
(***************************************************************************)
\* params: a positional sequence (isArray) or one structured argument.
NoParams == [isArray |-> TRUE, items |-> <<>>]

NoReq == [name |-> "", namespace |-> "", resource |-> "", method |-> "",
          params |-> NoParams]

NoLast == [op |-> "none", name |-> "", req |-> NoReq, fault |-> "none",
           withReq |-> FALSE, res |-> "ok", err |-> "", ret |-> "",
           names |-> <<>>, invoked |-> <<>>, target |-> 0, loaded |-> 0,
           mat |-> FALSE, inIndex |-> FALSE, hadExp |-> FALSE, size |-> 0,
           out |-> [ok |-> TRUE, val |-> ""],
           notified |-> EmptyBag, skipped |-> 0, record |-> <<>>]

Fail(l, kind) == [l EXCEPT !.res = "err", !.err = kind]

(***************************************************************************)
(* JS Map / Array helpers.                                                 *)
(***************************************************************************)
\* Array.prototype.includes
Includes(list, x) == \E i \in 1..Len(list) : list[i] = x

\* Map.prototype.has / get (0 is undefined) / set (an existing key keeps its
\* place, a new key is appended)
MapHas(m, k) == \E i \in 1..Len(m) : m[i].name = k

MapGet(m, k) ==
  IF MapHas(m, k) THEN (CHOOSE i \in 1..Len(m) : m[i].name = k) ELSE 0

MapFacade(m, k) == IF MapHas(m, k) THEN m[MapGet(m, k)].fid ELSE 0

MapSet(m, k, f) ==
  IF MapHas(m, k)
  THEN [i \in 1..Len(m) |-> IF m[i].name = k THEN [name |-> k, fid |-> f] ELSE m[i]]
  ELSE Append(m, [name |-> k, fid |-> f])

MapKeys(m) == [i \in 1..Len(m) |-> m[i].name]

(***************************************************************************)
(* The store.                                                              *)
(***************************************************************************)
getWalletList == walletList

HasExport(name) == name \in DOMAIN walletExp

(***************************************************************************)
(* The wallet loader and the facade.                                       *)
(***************************************************************************)
\* _runWalletLoader on creation options: a new facade with a fresh seed.
\* _runWalletLoader on an export record: a facade with the record's seed.
NewFacade(name, seed) ==
  [walletName |-> name, seed |-> seed, pay |-> TRUE, destroys |-> 0]

\* Wallet.exportWallet
exportWallet(w) == [name |-> w.walletName, seed |-> w.seed]

\* Mutant of BootHandler: the key leaves out the asset.
BootHandlerWalletKey(f, walletName, k, ev) ==
  [fid |-> f, emitter |-> k, ev |-> ev,
   key |-> walletName \o ":" \o ev, safe |-> FALSE]

\* The handlers _subBootstrapEvents attaches: one per asset and pay event.
BootHandler(f, walletName, k, ev) ==
  [fid |-> f, emitter |-> k, ev |-> ev,
   key |-> walletName \o ":pay-" \o k \o ":" \o ev, safe |-> FALSE]

_subBootstrapEvents(L, f, walletName) ==
  L (+) SetToBag({BootHandler(f, walletName, Assets[i], BootstrapEvents[j]) :
                    i \in 1..Len(Assets), j \in 1..Len(BootstrapEvents)})

BootCount == Len(Assets) * Len(BootstrapEvents)

\* Mutant of addWallet: the new name is put in front of the index.
addWalletUnshift(list, exps, walletExport, fault) ==
  IF Includes(list, walletExport.name)
  THEN [err |-> "AlreadyExists", list |-> list, exps |-> exps]
  ELSE [err |-> "", list |-> <<walletExport.name>> \o list,
        exps |-> [n \in DOMAIN exps \cup {walletExport.name} |->
                    IF n = walletExport.name THEN walletExport ELSE exps[n]]]

\* Mutant of addWallet: the index is not consulted before it is extended.
addWalletNoCheck(list, exps, walletExport, fault) ==
  [err |-> "", list |-> Append(list, walletExport.name),
   exps |-> [n \in DOMAIN exps \cup {walletExport.name} |->
               IF n = walletExport.name THEN walletExport ELSE exps[n]]]

(***************************************************************************)
(* addWallet: the index is read, checked, extended; the export record is   *)
(* written first, the index second.                                        *)
(***************************************************************************)
addWallet(list, exps, walletExport, fault) ==
  IF Includes(list, walletExport.name)
  THEN [err |-> "AlreadyExists", list |-> list, exps |-> exps]
  ELSE IF fault = "putExport"
  THEN [err |-> "UpstreamFailure", list |-> list, exps |-> exps]
  ELSE LET exps2 == [n \in DOMAIN exps \cup {walletExport.name} |->
                       IF n = walletExport.name THEN walletExport ELSE exps[n]]
       IN IF fault = "putIndex"
          THEN [err |-> "UpstreamFailure", list |-> list, exps |-> exps2]
          ELSE [err |-> "", list |-> Append(list, walletExport.name),
                exps |-> exps2]

(***************************************************************************)
(* createWallet.  fault names the collaborator that rejects: the loader,   *)
(* exportWallet, the store's put of the export record or of the index.  An *)
(* input the run never reads is held at its default.                       *)
(***************************************************************************)
createWallet(nameOpt, withReq, fault) ==
  \E name \in {IF nameOpt = "" THEN "default" ELSE nameOpt} :
  \E f \in {Len(facades) + 1} :
  \E wallet \in {NewFacade(name, f)} :
  \E l \in {[NoLast EXCEPT !.op = "createWallet", !.name = name,
                           !.fault = fault, !.withReq = withReq,
                           !.mat = MapHas(_wallets, name),
                           !.inIndex = Includes(walletList, name),
                           !.hadExp = HasExport(name)]} :
    /\ storeOpen
    /\ UNCHANGED others
    /\ IF MapHas(_wallets, name)
       THEN /\ fault = "none" /\ ~withReq
            /\ last' = Fail(l, "AlreadyExists")
            /\ UNCHANGED <<storeOpen, walletList, walletExp, _wallets,
                           facades, _subs, listeners, created>>
       ELSE IF fault = "loader"
       THEN /\ ~withReq
            /\ last' = Fail(l, "UpstreamFailure")
            /\ UNCHANGED <<storeOpen, walletList, walletExp, _wallets,
                           facades, _subs, listeners, created>>
       ELSE /\ Len(facades) < MaxFacades
            /\ facades' = Append(facades, wallet)
            /\ IF fault = "export"
               THEN /\ ~withReq
                    /\ last' = Fail(l, "UpstreamFailure")
                    /\ UNCHANGED <<storeOpen, walletList, walletExp,
                                   _wallets, _subs, listeners, created>>
               ELSE \E add \in {addWallet(getWalletList, walletExp,
                                          exportWallet(wallet), fault)} :
                    /\ fault # "none" => add.err = "UpstreamFailure"
                    /\ _wallets' = MapSet(_wallets, wallet.walletName, f)
                    /\ walletList' = add.list
                    /\ walletExp' = add.exps
                    /\ IF add.err # ""
                       THEN /\ ~withReq
                            /\ last' = Fail(l, add.err)
                            /\ UNCHANGED <<listeners, created>>
                       ELSE /\ withReq =>
                                 BagCardinality(listeners) + BootCount
                                   <= MaxListeners
                            /\ listeners' =
                                 IF withReq
                                 THEN _subBootstrapEvents(listeners, f,
                                                          wallet.walletName)
                                 ELSE listeners
                            /\ created' = Append(created, name)
                            /\ last' = [l EXCEPT !.loaded = f, !.target = f]
                    /\ UNCHANGED <<storeOpen, _subs>>

(***************************************************************************)
(* Wallet.destroy (wallet.js:78-84): every registered asset is destroyed   *)
(* (WalletPay.destroy removes all listeners of the asset), the seed is     *)
(* released, the store closed, and pay set to null.  On a facade whose pay *)
(* is already null, `this.pay.each` throws a TypeError.  A rejecting       *)
(* store.close() leaves the facade with its registry still in place.       *)
(***************************************************************************)
removeAllListeners(L, f) ==
  LET keep == {h \in DOMAIN L : ~(h.fid = f /\ h.emitter # "wallet")}
  IN [h \in keep |-> L[h]]

destroy(F, L, f, closeFails) ==
  LET called == [F EXCEPT ![f].destroys = @ + 1]
  IN IF ~F[f].pay
     THEN [err |-> "TypeError", F |-> called, L |-> L]
     ELSE IF closeFails
     THEN [err |-> "UpstreamFailure", F |-> called,
           L |-> removeAllListeners(L, f)]
     ELSE [err |-> "", F |-> [called EXCEPT ![f].pay = FALSE],
           L |-> removeAllListeners(L, f)]

\* `for (const [key, wallet] of this._wallets) await wallet.destroy()`:
\* the loop stops at the first destroy that throws.  failAt is the position
\* of the facade whose store.close() rejects (0: none does).
RECURSIVE DestroyFrom(_, _, _, _, _)
DestroyFrom(m, i, F, L, failAt) ==
  IF i > Len(m)
  THEN [err |-> "", F |-> F, L |-> L]
  ELSE LET d == destroy(F, L, m[i].fid, failAt = i)
       IN IF d.err # ""
          THEN d
          ELSE DestroyFrom(m, i + 1, d.F, d.L, failAt)

CanDestroyAll ==
  \A i \in 1..Len(_wallets) : facades[_wallets[i].fid].destroys < MaxDestroys

(***************************************************************************)
(* shutdown                                                                *)
(***************************************************************************)
shutdown(failAt) ==
  \E r \in {DestroyFrom(_wallets, 1, facades, listeners, failAt)} :
  \E l \in {[NoLast EXCEPT !.op = "shutdown",
                           !.fault = IF failAt = 0 THEN "none" ELSE "close",
                           !.size = Len(_wallets)]} :
    /\ CanDestroyAll
    /\ failAt # 0 => r.err = "UpstreamFailure"
    /\ facades' = r.F
    /\ listeners' = r.L
    /\ IF r.err # ""
       THEN /\ last' = Fail(l, r.err)
            /\ UNCHANGED <<storeOpen, _wallets>>
       ELSE /\ storeOpen' = FALSE
            /\ _wallets' = <<>>
            /\ last' = [l EXCEPT !.names = MapKeys(_wallets)]
    /\ UNCHANGED <<walletList, walletExp, _subs, created, others>>

(***************************************************************************)
(* resumeWallets                                                           *)
(***************************************************************************)
resumeWallets(failAt) ==
  \E r \in {DestroyFrom(_wallets, 1, facades, listeners, failAt)} :
  \E l \in {[NoLast EXCEPT !.op = "resumeWallets",
                           !.fault = IF failAt = 0 THEN "none" ELSE "close",
                           !.size = Len(_wallets)]} :
    /\ CanDestroyAll
    /\ failAt # 0 => r.err = "UpstreamFailure"
    /\ facades' = r.F
    /\ listeners' = r.L
    /\ last' = IF r.err # "" THEN Fail(l, r.err) ELSE l
    /\ UNCHANGED <<storeOpen, walletList, walletExp, _wallets, _subs,
                   created, others>>

(***************************************************************************)
(* removeWallet: `delete walletList[name]` deletes the array's own         *)
(* property called name, which exists only when name is an array index.    *)
(***************************************************************************)
ArrayIndexOf(name) ==
  CASE name = "0" -> 1 [] name = "1" -> 2 [] name = "2" -> 3 [] OTHER -> 0

DeleteProperty(list, name) ==
  IF ArrayIndexOf(name) \in 1..Len(list)
  THEN [list EXCEPT ![ArrayIndexOf(name)] = ""]
  ELSE list

removeWallet(name) ==
  /\ storeOpen
  /\ walletList' = DeleteProperty(getWalletList, name)
  /\ last' = [NoLast EXCEPT !.op = "removeWallet", !.name = name,
                            !.inIndex = Includes(walletList, name),
                            !.hadExp = HasExport(name),
                            !.mat = MapHas(_wallets, name)]
  /\ UNCHANGED <<storeOpen, walletExp, _wallets, facades, _subs, listeners,
                 created, others>>

(***************************************************************************)
(* _load, _setupWallet, loadWallet                                         *)
(***************************************************************************)
\* getWallet(_, name): store.get(`wallet-${name}`); an absent key and a name
\* that is undefined both give no record.
NoConfig == [name |-> "", seed |-> 0]

getWallet(name) == IF HasExport(name) THEN walletExp[name] ELSE NoConfig

\* Mutant of _load: the loaded facade is not put in the map.
_loadNoSet(m, F, config, fault) ==
  IF fault = "loader"
  THEN [err |-> "UpstreamFailure", m |-> m, F |-> F, res |-> <<>>]
  ELSE [err |-> "", m |-> m,
        F |-> Append(F, NewFacade(config.name, config.seed)),
        res |-> <<Len(F) + 1>>]

_load(m, F, config, fault) ==
  LET rec == getWallet(config.name)
      f == Len(F) + 1
  IN IF fault = "loader"
     THEN [err |-> "UpstreamFailure", m |-> m, F |-> F, res |-> <<>>]
     ELSE [err |-> "", m |-> MapSet(m, config.name, f),
           F |-> Append(F, NewFacade(rec.name, rec.seed)), res |-> <<f>>]

\* opts = [all, name].  With opts.all every element of the index is mapped
\* through getWallet({}.walletName), i.e. getWallet(undefined), which finds
\* no record, and _load(undefined) throws reading config.name.
_setupWallet(m, F, opts, fault) ==
  IF opts.all
  THEN IF Len(getWalletList) = 0
       THEN [err |-> "", m |-> m, F |-> F, res |-> <<>>]
       ELSE [err |-> "TypeError", m |-> m, F |-> F, res |-> <<>>]
  ELSE IF getWallet(opts.name) = NoConfig
  THEN [err |-> "NotFound", m |-> m, F |-> F, res |-> <<>>]
  ELSE _load(m, F, getWallet(opts.name), fault)

loadWallet(opts, fault) ==
  \E su \in {_setupWallet(_wallets, facades, opts, fault)} :
  \E l \in {[NoLast EXCEPT !.op = "loadWallet", !.name = opts.name,
                           !.withReq = opts.all, !.fault = fault,
                           !.mat = MapHas(_wallets, opts.name),
                           !.inIndex = Includes(walletList, opts.name),
                           !.hadExp = HasExport(opts.name),
                           !.size = Len(walletList)]} :
    /\ storeOpen
    /\ Len(su.F) <= MaxFacades
    /\ fault = "loader" => su.err = "UpstreamFailure"
    /\ _wallets' = su.m
    /\ facades' = su.F
    /\ last' = IF su.err # ""
               THEN Fail(l, su.err)
               ELSE [l EXCEPT !.names = [i \in 1..Len(su.res) |->
                                           su.F[su.res[i]].walletName],
                              !.loaded = IF su.res = <<>> THEN 0
                                         ELSE su.res[1]]
    /\ UNCHANGED <<storeOpen, walletList, walletExp, _subs, listeners,
                   created, others>>

(***************************************************************************)
(* Subscription multiplexer: _getEventName, _subscribe, _unsubscribe.      *)
(***************************************************************************)
\* `req.params.shift()` of a positional sequence; a non-array and a missing
\* (or empty) event name throw.
_getEventName(params) ==
  IF ~params.isArray THEN [err |-> "BadArguments", ev |-> ""]
  ELSE IF params.items = <<>> THEN [err |-> "BadArguments", ev |-> ""]
  ELSE IF Head(params.items) = "" THEN [err |-> "BadArguments", ev |-> ""]
  ELSE [err |-> "", ev |-> Head(params.items)]

\* Mutant of AtLimit: the ceiling is tested one entry too late.
AtLimitLate(S) == Cardinality(DOMAIN S) > MAX_SUB_SIZE

\* `this._subs.size === MAX_SUB_SIZE`
AtLimit(S) == Cardinality(DOMAIN S) = MAX_SUB_SIZE

WalletKey(req, ev) == req.name \o ":" \o ev

ResourceKey(req, ev) ==
  req.name \o ":" \o req.namespace \o "-" \o req.resource \o ":" \o ev

\* The emitter a scope addresses: the facade itself or one of its resources.
EmitterOf(req, scope) == IF scope = "wallet" THEN "wallet" ELSE req.resource

EventKey(req, ev, scope) ==
  IF scope = "wallet" THEN WalletKey(req, ev) ELSE ResourceKey(req, ev)

\* Map.prototype.set / delete on this._subs
SubsSet(S, k, h) == [x \in DOMAIN S \cup {k} |-> IF x = k THEN h ELSE S[x]]

\* Mutant of SubsDelete: the entry stays in the map.
SubsDeleteKeep(S, k) == S

SubsDelete(S, k) == [x \in DOMAIN S \ {k} |-> S[x]]

_subscribe(S, L, req, f, scope) ==
  LET en == _getEventName(req.params)
      eventKey == EventKey(req, en.ev, scope)
      eventHandler == [fid |-> f, emitter |-> EmitterOf(req, scope),
                       ev |-> en.ev, key |-> eventKey, safe |-> TRUE]
  IN IF en.err # ""
     THEN [err |-> en.err, ret |-> "", S |-> S, L |-> L]
     ELSE IF AtLimit(S)
     THEN [err |-> "SubscriptionLimitExceeded", ret |-> "", S |-> S, L |-> L]
     ELSE IF scope \notin {"wallet", "resource"}
     THEN [err |-> "BadArguments", ret |-> "", S |-> S, L |-> L]
     ELSE [err |-> "", ret |-> eventKey,
           S |-> SubsSet(S, eventKey, eventHandler),
           L |-> L (+) SetToBag({eventHandler})]

\* emitter.off(eventName, handler): detaches the handler if it is attached
\* to this emitter under this event name.
Off(L, f, emitter, ev, h) ==
  IF h.fid = f /\ h.emitter = emitter /\ h.ev = ev /\ CopiesIn(h, L) > 0
  THEN L (-) SetToBag({h})
  ELSE L

_unsubscribe(S, L, req, f, scope) ==
  LET en == _getEventName(req.params)
      eventKey == EventKey(req, en.ev, scope)
  IN IF en.err # ""
     THEN [err |-> en.err, ret |-> "", S |-> S, L |-> L]
     ELSE IF scope \notin {"wallet", "resource"}
     THEN [err |-> "BadArguments", ret |-> "", S |-> S, L |-> L]
     ELSE IF eventKey \notin DOMAIN S
     THEN [err |-> "NotFound", ret |-> "", S |-> S, L |-> L]
     ELSE [err |-> "", ret |-> eventKey,
           S |-> SubsDelete(S, eventKey),
           L |-> Off(L, f, EmitterOf(req, scope), en.ev, S[eventKey])]

(***************************************************************************)
(* Dispatch (callWallet, lines 200-226) on the facade f.                   *)
(***************************************************************************)
\* Callables of the facade reachable as a namespace.
FacadeMethods == {"destroy"}
\* Callables of a payment asset other than on / off.
AssetMethods == {"getBalance"}

\* wallet[req.namespace] is truthy
HasNamespace(w, ns) ==
  \/ ns \in {"on", "off"} \cup FacadeMethods
  \/ ns = "pay" /\ w.pay

\* wallet[req.namespace][req.resource] is truthy
HasResource(w, ns, r) == ns = "pay" /\ Includes(Assets, r)

\* Mutant of HasMethod: the method name is not checked.
HasMethodAny(m) == TRUE

\* wallet[req.namespace][req.resource][req.method] is truthy
HasMethod(m) == m \in AssetMethods \cup {"on", "off"}

\* The arguments a method receives: the positional sequence spread, or the
\* single structured argument passed whole.
Atom(v) == [obj |-> FALSE, items |-> <<v>>]

\* Mutant of Args: the params are passed whole whatever their shape.
ArgsWhole(params) == <<[obj |-> TRUE, items |-> params.items]>>

Args(params) ==
  IF params.isArray
  THEN [i \in 1..Len(params.items) |-> Atom(params.items[i])]
  ELSE <<[obj |-> TRUE, items |-> params.items]>>

Outcome(err, ret, F, S, L, invoked) ==
  [err |-> err, ret |-> ret, F |-> F, S |-> S, L |-> L, invoked |-> invoked]

WithSubs(F, r) == Outcome(r.err, r.ret, F, r.S, r.L, <<>>)

\* out: how the callee settles: [ok, val] for an asset method, [ok] read as
\* "store.close() resolves" for the facade's destroy.
Dispatch(F, S, L, f, req, out) ==
  LET w == F[f]
  IN IF ~HasNamespace(w, req.namespace)
     THEN Outcome("InvalidNamespace", "", F, S, L, <<>>)
     ELSE IF req.namespace = "on"
     THEN WithSubs(F, _subscribe(S, L, req, f, "wallet"))
     ELSE IF req.namespace = "off"
     THEN WithSubs(F, _unsubscribe(S, L, req, f, "wallet"))
     ELSE IF req.resource = ""
     THEN IF ~req.params.isArray \/ req.namespace \notin FacadeMethods
          THEN Outcome("TypeError", "", F, S, L, <<>>)
          ELSE LET d == destroy(F, L, f, ~out.ok)
               IN Outcome(d.err, "", d.F, S, d.L, <<>>)
     ELSE IF ~HasResource(w, req.namespace, req.resource)
     THEN Outcome("InvalidResource", "", F, S, L, <<>>)
     ELSE IF req.method = "on"
     THEN WithSubs(F, _subscribe(S, L, req, f, "resource"))
     ELSE IF req.method = "off"
     THEN WithSubs(F, _unsubscribe(S, L, req, f, "resource"))
     ELSE IF ~HasMethod(req.method)
     THEN Outcome("InvalidMethod", "", F, S, L, <<>>)
     ELSE Outcome(IF out.ok THEN "" ELSE "UpstreamFailure", out.val, F, S, L,
                  <<[resource |-> req.resource, method |-> req.method,
                     args |-> Args(req.params)]>>)

\* The requests of the model, by the step of the dispatch they reach.
Req(name, ns, r, m, p) ==
  [name |-> name, namespace |-> ns, resource |-> r, method |-> m, params |-> p]

Arr(items) == [isArray |-> TRUE, items |-> items]

Obj(items) == [isArray |-> FALSE, items |-> items]

SubParams ==
  {Arr(<<ev>>) : ev \in EventNames} \cup {Arr(<<>>), Obj(<<"new-tx">>)}

CallParams == {Arr(<<"x", "y">>), Obj(<<"x", "y">>)}

\* Requests that reach every step of the dispatch.
Requests ==
  UNION {
    {Req(n, "nope", "", "", NoParams)}
      \cup {Req(n, ns, "", "", p) : ns \in {"on", "off"}, p \in SubParams}
      \cup {Req(n, "destroy", "", "", NoParams),
            Req(n, "pay", "", "", NoParams),
            Req(n, "pay", "nope", "getBalance", NoParams),
            Req(n, "pay", "btc", "nope", NoParams)}
      \cup {Req(n, "pay", "btc", m, p) : m \in {"on", "off"}, p \in SubParams}
      \cup {Req(n, "pay", "btc", "getBalance", p) : p \in CallParams}
    : n \in WalletNames}

\* Requests without subscription control.
PlainRequests ==
  UNION {
    {Req(n, "nope", "", "", NoParams),
     Req(n, "destroy", "", "", NoParams),
     Req(n, "pay", "btc", "getBalance", NoParams)}
    : n \in WalletNames}

\* How the callee settles: an asset method resolves with val or rejects with
\* val; for the facade's destroy, ok reads "store.close() resolves".
Outs == {[ok |-> TRUE, val |-> v] : v \in Values}
          \cup {[ok |-> FALSE, val |-> "e1"]}

NoOut == [ok |-> TRUE, val |-> ""]

IsInvoke(req) ==
  req.namespace = "pay" /\ req.resource = "btc" /\ req.method = "getBalance"

OutsFor(req) == IF IsInvoke(req) THEN Outs ELSE {NoOut}

FaultsFor(req) ==
  IF ~MapHas(_wallets, req.name) /\ HasExport(req.name)
  THEN {"none", "loader"}
  ELSE {"none"}

(***************************************************************************)
(* callWallet.  mat is what `this._wallets.get(req.name)` found at line    *)
(* 193; everything after the `await this._setupWallet` of line 195 runs in *)
(* the state the manager has when the operation resumes.                   *)
(***************************************************************************)
callWalletFrom(req, out, fault, mat) ==
  \E su \in {IF mat
             THEN [err |-> "", m |-> _wallets, F |-> facades,
                   res |-> <<MapFacade(_wallets, req.name)>>]
             ELSE _setupWallet(_wallets, facades,
                               [all |-> FALSE, name |-> req.name], fault)} :
  \E l \in {[NoLast EXCEPT !.op = "callWallet", !.name = req.name,
                           !.req = req, !.fault = fault, !.mat = mat,
                           !.inIndex = Includes(walletList, req.name),
                           !.hadExp = HasExport(req.name),
                           !.size = Cardinality(DOMAIN _subs)]} :
    /\ IF su.err # ""
       THEN /\ last' = Fail(l, su.err)
            /\ UNCHANGED <<storeOpen, walletList, walletExp, _wallets,
                           facades, _subs, listeners, created>>
       ELSE \E f \in {su.res[Len(su.res)]} :
            \E L1 \in {IF mat THEN listeners
                       ELSE _subBootstrapEvents(listeners, f,
                                                su.F[f].walletName)} :
            \E d \in {Dispatch(su.F, _subs, L1, f, req, out)} :
              /\ Len(su.F) <= MaxFacades
              /\ BagCardinality(d.L) <= MaxListeners
              /\ d.F[f].destroys <= MaxDestroys
              /\ _wallets' = su.m
              /\ facades' = d.F
              /\ _subs' = d.S
              /\ listeners' = d.L
              /\ last' = [l EXCEPT !.res = IF d.err = "" THEN "ok" ELSE "err",
                                   !.err = d.err, !.ret = d.ret,
                                   !.invoked = d.invoked, !.target = f,
                                   !.loaded = IF mat THEN 0 ELSE f,
                                   !.out = out]
              /\ UNCHANGED <<storeOpen, walletList, walletExp, created>>

\* The operation run without another operation in between.
callWallet(req, out, fault) ==
  /\ MapHas(_wallets, req.name) \/ storeOpen
  /\ callWalletFrom(req, out, fault, MapHas(_wallets, req.name))
  /\ UNCHANGED others

\* Operations of the manager that may be suspended at one time.
Procs == {1, 2}

Idle == [pc |-> "idle", req |-> NoReq]

\* callWallet up to its first suspension: the map has no facade for the name
\* and the operation awaits _setupWallet.
callWalletBegin(p, req) ==
  /\ inflight[p].pc = "idle"
  /\ storeOpen
  /\ ~MapHas(_wallets, req.name)
  /\ inflight' = [inflight EXCEPT ![p] = [pc |-> "loading", req |-> req]]
  /\ UNCHANGED <<storeOpen, walletList, walletExp, _wallets, facades, _subs,
                 listeners, last, created, wal, _tokens>>

\* callWallet resumed: _setupWallet reads the store, runs the loader, sets
\* the map entry; the bootstrap subscriptions and the dispatch follow.  On a
\* store closed in between, the store's get rejects.
callWalletEnd(p, out, fault) ==
  /\ inflight[p].pc = "loading"
  /\ inflight' = [inflight EXCEPT ![p] = Idle]
  /\ UNCHANGED <<wal, _tokens>>
  /\ IF storeOpen
     THEN callWalletFrom(inflight[p].req, out, fault, FALSE)
     ELSE /\ fault = "none" /\ out = NoOut
          /\ last' = Fail([NoLast EXCEPT !.op = "callWallet",
                                         !.name = inflight[p].req.name,
                                         !.req = inflight[p].req],
                          "UpstreamFailure")
          /\ UNCHANGED <<storeOpen, walletList, walletExp, _wallets,
                         facades, _subs, listeners, created>>

(***************************************************************************)
(* emit: the asset k of the facade f emits ev with the argument tx.  The   *)
(* listeners of an emitter run in the order they were attached, and a      *)
(* listener that throws ends the emit: the later listeners do not run and  *)
(* the throw reaches the emitting asset.  On the asset the order is: the   *)
(* facade's relay of 'new-tx' (wallet.js:70-72, attached by initialize),   *)
(* which emits the event on the facade with (assetName, tx); the handlers  *)
(* of _subBootstrapEvents (attached when the facade is created or loaded); *)
(* the handlers of _subscribe.  notifyFails: req.notify throws.            *)
(***************************************************************************)
\* The listeners attached to one emitter of the facade f for ev.
ListenersOf(L, f, emitter, ev) ==
  {h \in DOMAIN L : h.fid = f /\ h.emitter = emitter /\ h.ev = ev}

\* `req.notify(eventKey, [...args])`
Notification(h, args) == [key |-> h.key, args |-> args]

\* The notifications the listeners of the set ran make, with the arguments
\* each emitter passes, as a bag.
NotifiedBy(L, ran, k, tx) ==
  LET ArgsFor(h) == IF h.emitter = "wallet" THEN <<k, tx>> ELSE <<tx>>
      notes == {Notification(h, ArgsFor(h)) : h \in ran}
      Count(n) ==
        LET hs == {h \in ran : Notification(h, ArgsFor(h)) = n}
            safeOnes == {h \in hs : h.safe}
            bootOnes == {h \in hs : ~h.safe}
        IN (IF safeOnes = {} THEN 0 ELSE L[CHOOSE h \in safeOnes : TRUE])
           + (IF bootOnes = {} THEN 0 ELSE L[CHOOSE h \in bootOnes : TRUE])
  IN [n \in notes |-> Count(n)]

RECURSIVE Copies(_, _)
Copies(L, hs) ==
  IF hs = {} THEN 0
  ELSE LET h == CHOOSE x \in hs : TRUE IN L[h] + Copies(L, hs \ {h})

emit(f, k, ev, tx, notifyFails) ==
  LET relayed == IF ev = "new-tx" THEN ListenersOf(listeners, f, "wallet", ev)
                 ELSE {}
      onAsset == ListenersOf(listeners, f, k, ev)
      boot == {h \in onAsset : ~h.safe}
      subs == {h \in onAsset : h.safe}
      throws == notifyFails /\ boot # {}
      ran == IF throws THEN relayed \cup boot ELSE relayed \cup onAsset
  IN /\ f \in 1..Len(facades)
     /\ facades[f].pay /\ facades[f].destroys = 0
     /\ last' = [NoLast EXCEPT
                   !.op = "emit", !.name = facades[f].walletName,
                   !.target = f,
                   !.req = Req("", "pay", k, "", Arr(<<ev, tx>>)),
                   !.fault = IF notifyFails THEN "notify" ELSE "none",
                   !.res = IF throws THEN "err" ELSE "ok",
                   !.err = IF throws THEN "UpstreamFailure" ELSE "",
                   !.notified = NotifiedBy(listeners, ran, k, tx),
                   !.skipped = IF throws THEN Copies(listeners, subs) ELSE 0]
     /\ UNCHANGED <<storeOpen, walletList, walletExp, _wallets, facades,
                    _subs, listeners, created, others>>

(***************************************************************************)
(* init                                                                    *)
(***************************************************************************)
init ==
  /\ ~storeOpen
  /\ storeOpen' = TRUE
  /\ last' = [NoLast EXCEPT !.op = "init"]
  /\ UNCHANGED <<walletList, walletExp, _wallets, facades, _subs, listeners,
                 created, others>>

Init ==
  /\ storeOpen = FALSE
  /\ walletList = <<>>
  /\ walletExp = [n \in {} |-> exportWallet(NewFacade(n, 0))]
  /\ _wallets = <<>>
  /\ facades = <<>>
  /\ _subs = [k \in {} |-> BootHandler(0, "", "", "")]
  /\ listeners = EmptyBag
  /\ last = NoLast
  /\ created = <<>>
  /\ inflight = [p \in Procs |-> Idle]
  /\ wal = 0
  /\ _tokens = <<>>

(***************************************************************************)
(* createWallet and removeWallet taken apart at their awaits, so that two  *)
(* operations of the manager interleave and the store is seen between its  *)
(* writes.  inflight[p].req holds what the suspended operation keeps in    *)
(* its locals: the name, the caller context flag, the facade, and the      *)
(* index array it read.  A store get takes effect when it resolves; a put  *)
(* takes effect and resolves in one step.  The awaits of the loader and of *)
(* exportWallet follow each other with no manager state touched in         *)
(* between, and resume together.                                           *)
(***************************************************************************)
CreateCtx(name, withReq, f, list) ==
  [name |-> name, withReq |-> withReq, f |-> f, list |-> list]

manageVars == <<storeOpen, walletList, walletExp, _wallets, facades, _subs,
                listeners, created>>

\* createWallet, lines 108-112: the name is defaulted, a name in the map is
\* refused, the loader is called.
createWalletBegin(p, nameOpt, withReq) ==
  \E name \in {IF nameOpt = "" THEN "default" ELSE nameOpt} :
    /\ inflight[p].pc = "idle"
    /\ storeOpen
    /\ UNCHANGED <<manageVars, wal, _tokens>>
    /\ IF MapHas(_wallets, name)
       THEN /\ ~withReq
            /\ last' = Fail([NoLast EXCEPT !.op = "createWallet",
                                           !.name = name], "AlreadyExists")
            /\ UNCHANGED inflight
       ELSE /\ inflight' = [inflight EXCEPT ![p] =
                              [pc |-> "loader",
                               req |-> CreateCtx(name, withReq, 0, <<>>)]]
            /\ UNCHANGED last

\* Lines 112-115: the loader and exportWallet have resolved, the facade is
\* put in the map and addWallet asks the store for the index.
createWalletExported(p, fault) ==
  \E c \in {inflight[p].req} :
  \E f \in {Len(facades) + 1} :
    /\ inflight[p].pc = "loader"
    /\ UNCHANGED <<storeOpen, walletList, walletExp, _subs, listeners,
                   created, wal, _tokens>>
    /\ IF fault = "loader"
       THEN /\ inflight' = [inflight EXCEPT ![p] = Idle]
            /\ last' = Fail([NoLast EXCEPT !.op = "createWallet",
                                           !.name = c.name, !.fault = fault],
                            "UpstreamFailure")
            /\ UNCHANGED <<_wallets, facades>>
       ELSE /\ Len(facades) < MaxFacades
            /\ facades' = Append(facades, NewFacade(c.name, f))
            /\ IF fault = "export"
               THEN /\ inflight' = [inflight EXCEPT ![p] = Idle]
                    /\ last' = Fail([NoLast EXCEPT !.op = "createWallet",
                                       !.name = c.name, !.fault = fault],
                                    "UpstreamFailure")
                    /\ UNCHANGED _wallets
               ELSE /\ _wallets' = MapSet(_wallets, c.name, f)
                    /\ inflight' = [inflight EXCEPT ![p] =
                                      [pc |-> "read",
                                       req |-> CreateCtx(c.name, c.withReq,
                                                         f, <<>>)]]
                    /\ UNCHANGED last

\* Mutant of addWalletNext: the index is written before the export record.
addWalletIndexFirst(pc) ==
  CASE pc = "read" -> "putIndex"
    [] pc = "putIndex" -> "putExport"
    [] OTHER -> "done"

\* The store write addWallet awaits after the point pc: the export record
\* (line 70), then the index (line 71), then it returns.
addWalletNext(pc) ==
  CASE pc = "read" -> "putExport"
    [] pc = "putExport" -> "putIndex"
    [] OTHER -> "done"

\* addWallet, lines 64-70: the index has been read; a name it includes is
\* refused, otherwise the name is pushed on the array and the first put is
\* called.
createWalletRead(p) ==
  \E c \in {inflight[p].req} :
    /\ inflight[p].pc = "read"
    /\ UNCHANGED <<manageVars, wal, _tokens>>
    /\ IF Includes(getWalletList, c.name)
       THEN /\ inflight' = [inflight EXCEPT ![p] = Idle]
            /\ last' = Fail([NoLast EXCEPT !.op = "createWallet",
                                           !.name = c.name], "AlreadyExists")
       ELSE /\ inflight' = [inflight EXCEPT ![p] =
                              [pc |-> addWalletNext("read"),
                               req |-> CreateCtx(c.name, c.withReq, c.f,
                                          Append(getWalletList, c.name))]]
            /\ UNCHANGED last

\* store.put(`wallet-${walletExport.name}`, walletExport)
PutExport(exps, walletExport) ==
  [n \in DOMAIN exps \cup {walletExport.name} |->
     IF n = walletExport.name THEN walletExport ELSE exps[n]]

\* The put that addWallet awaits settles.  ok: it wrote; otherwise it
\* rejected and createWallet rejects.  After the last put createWallet
\* attaches the bootstrap subscriptions (lines 116-118) and returns.
createWalletPut(p, ok) ==
  /\ inflight[p].pc \in {"putExport", "putIndex"}
  /\ \E c \in {inflight[p].req} :
     \E pc \in {inflight[p].pc} :
     \E l \in {[NoLast EXCEPT !.op = "createWallet", !.name = c.name,
                              !.withReq = c.withReq]} :
    /\ UNCHANGED <<storeOpen, _wallets, facades, _subs, wal, _tokens>>
    /\ IF ~ok
       THEN /\ inflight' = [inflight EXCEPT ![p] = Idle]
            /\ last' = Fail([l EXCEPT !.fault = pc], "UpstreamFailure")
            /\ UNCHANGED <<walletList, walletExp, listeners, created>>
       ELSE /\ IF pc = "putExport"
               THEN /\ walletExp' = PutExport(walletExp,
                                              exportWallet(facades[c.f]))
                    /\ UNCHANGED walletList
               ELSE /\ walletList' = c.list
                    /\ UNCHANGED walletExp
            /\ IF addWalletNext(pc) = "done"
               THEN /\ c.withReq =>
                         BagCardinality(listeners) + BootCount <= MaxListeners
                    /\ listeners' =
                         IF c.withReq
                         THEN _subBootstrapEvents(listeners, c.f, c.name)
                         ELSE listeners
                    /\ created' = Append(created, c.name)
                    /\ inflight' = [inflight EXCEPT ![p] = Idle]
                    /\ last' = l
               ELSE /\ inflight' = [inflight EXCEPT ![p] =
                                      [pc |-> addWalletNext(pc), req |-> c]]
                    /\ UNCHANGED <<listeners, created, last>>

\* removeWallet, lines 75-77: the index has been read, `delete` has acted
\* on the array, and the put of the index is called.
removeWalletBegin(p, name) ==
  /\ inflight[p].pc = "idle"
  /\ storeOpen
  /\ inflight' = [inflight EXCEPT ![p] =
                    [pc |-> "rmPut",
                     req |-> CreateCtx(name, FALSE, 0,
                                       DeleteProperty(getWalletList, name))]]
  /\ UNCHANGED <<manageVars, last, wal, _tokens>>

\* removeWallet's put of the index settles.
removeWalletPut(p) ==
  /\ inflight[p].pc = "rmPut"
  /\ walletList' = inflight[p].req.list
  /\ inflight' = [inflight EXCEPT ![p] = Idle]
  /\ last' = [NoLast EXCEPT !.op = "removeWallet",
                            !.name = inflight[p].req.name]
  /\ UNCHANGED <<storeOpen, walletExp, _wallets, facades, _subs, listeners,
                 created, wal, _tokens>>

(***************************************************************************)
(* The Wallet facade (wallet.js) driven directly.  The assets are the      *)
(* payment assets handed to the constructor; each is known by its          *)
(* assetName.  The asset registry `pay` (asset-list.js) is an ordered      *)
(* mapping from namespace key to asset: RegistrySet appends a key, and     *)
(* `each` visits the keys in insertion order.                              *)
(***************************************************************************)
\* config.assets of the constructor.
AssetInputs == {<<"btc">>, <<"btc", "eth">>, <<"eth", "btc">>}

\* Wallet.constructor: seed and store are held, the registry does not exist
\* yet (payNull), no operation is under way.
NewWallet(assets) ==
  [seed |-> TRUE, store |-> TRUE, _assets |-> assets, assetsNull |-> FALSE,
   payNull |-> TRUE, keys |-> <<>>, relays |-> {},
   busy |-> "", pending |-> {}, failed |-> {}, ready |-> 0,
   queue |-> <<>>, running |-> "", log |-> <<>>,
   destroyed |-> [k \in {} |-> 0],
   sasset |-> "", squeue |-> {}, slog |-> <<>>,
   syncing |-> [k \in {} |-> [pos |-> 0, st |-> "done"]]]

\* AssetList.set(k, asset)
RegistrySet(keys, k) == Append(keys, k)

SeqToSet(q) == {q[i] : i \in 1..Len(q)}

\* What stays put while the facade is driven.
managerVars == <<storeOpen, walletList, walletExp, _wallets, facades, _subs,
                 listeners, created, inflight, _tokens>>

WalLast(op) == [NoLast EXCEPT !.op = op]

(***************************************************************************)
(* Wallet.initialize: the registry is replaced by an empty one, every      *)
(* asset's _initAsset is started, and when all have settled _assets is     *)
(* cleared and 'ready' is emitted.  On a facade whose _assets is null      *)
(* (initialized before) `this._assets.map` throws after the registry has   *)
(* been replaced.                                                          *)
(***************************************************************************)
Wallet_initialize ==
  /\ wal.busy = ""
  /\ IF wal.assetsNull
     THEN /\ wal' = [wal EXCEPT !.payNull = FALSE, !.keys = <<>>]
          /\ last' = Fail(WalLast("initialize"), "TypeError")
     ELSE /\ wal' = [wal EXCEPT !.payNull = FALSE, !.keys = <<>>,
                                !.busy = "initialize",
                                !.pending = SeqToSet(wal._assets)]
          /\ last' = WalLast("initialize:start")
  /\ UNCHANGED managerVars

\* Mutant of _initAsset: an asset whose initialize failed is registered all
\* the same.
_initAssetKeepsFailed(w, k, ok) ==
  [w EXCEPT !.pending = @ \ {k},
            !.keys = RegistrySet(@, k),
            !.relays = @ \cup {k},
            !.failed = IF ok THEN @ ELSE @ \cup {k}]

\* _initAsset(asset) settling.  ok: asset.initialize resolved, having
\* registered the asset through wallet.addAsset (wallet-pay.js:108), and the
\* 'new-tx' relay is attached; otherwise it threw before registering and
\* the error is logged.
_initAsset(w, k, ok) ==
  IF ok
  THEN [w EXCEPT !.pending = @ \ {k},
                 !.keys = RegistrySet(@, k),
                 !.relays = @ \cup {k}]
  ELSE [w EXCEPT !.pending = @ \ {k}, !.failed = @ \cup {k}]

Wallet_initAssetSettles(k, ok) ==
  /\ wal.busy = "initialize"
  /\ k \in wal.pending
  /\ wal' = _initAsset(wal, k, ok)
  /\ last' = WalLast("_initAsset")
  /\ UNCHANGED managerVars

\* `await Promise.all(...)` resumes: every _initAsset has settled.
Wallet_initializeEnd ==
  /\ wal.busy = "initialize"
  /\ wal.pending = {}
  /\ wal' = [wal EXCEPT !.busy = "", !.assetsNull = TRUE, !.ready = @ + 1]
  /\ last' = WalLast("initialize")
  /\ UNCHANGED managerVars

\* Wallet.addAsset(k, assetObj) with a string key, called directly.
Wallet_addAsset(k) ==
  /\ wal.busy = ""
  /\ IF wal.payNull
     THEN /\ wal' = wal
          /\ last' = Fail([WalLast("addAsset") EXCEPT !.name = k], "TypeError")
     ELSE /\ k \notin SeqToSet(wal.keys)
          /\ wal' = [wal EXCEPT !.keys = RegistrySet(@, k)]
          /\ last' = [WalLast("addAsset") EXCEPT !.name = k]
  /\ UNCHANGED managerVars

(***************************************************************************)
(* Wallet.destroy (wallet.js:78-84).  `this.pay.each(asset =>              *)
(* asset.destroy())` visits the registry in insertion order, one asset at  *)
(* a time; the facade awaits it, then releases the seed, closes the store  *)
(* and drops store and registry.  On a facade without registry the call    *)
(* throws at once.  log is the trace of the running destroy.               *)
(***************************************************************************)
\* The asset whose callback `each` starts next.
EachNext(w) ==
  IF w.running = "" /\ w.queue # <<>> THEN {Head(w.queue)} ELSE {}

\* Mutant of Awaited: the facade does not wait for the registry's each.
AwaitedNever(w) == TRUE

\* `await this.pay.each(...)` has resumed: every asset destroy completed.
Awaited(w) == w.queue = <<>> /\ w.running = ""

Wallet_destroy ==
  /\ wal.busy = ""
  /\ \A k \in DOMAIN wal.destroyed : wal.destroyed[k] < MaxDestroys
  /\ IF wal.payNull
     THEN /\ wal' = wal
          /\ last' = Fail(WalLast("destroy"), "TypeError")
     ELSE /\ wal' = [wal EXCEPT !.busy = "destroy", !.queue = wal.keys,
                                !.running = "", !.log = <<>>]
          /\ last' = [WalLast("destroy:start") EXCEPT !.names = wal.keys]
  /\ UNCHANGED managerVars

\* asset.destroy() is called.
Wallet_assetDestroyBegin(k) ==
  /\ wal.busy = "destroy"
  /\ k \in EachNext(wal)
  /\ wal' = [wal EXCEPT !.running = k,
                        !.log = Append(@, [ev |-> "begin", k |-> k])]
  /\ last' = [WalLast("asset.destroy:start") EXCEPT !.name = k]
  /\ UNCHANGED managerVars

\* WalletPay.destroy completes: _destroy(), then removeAllListeners().
Wallet_assetDestroyEnd ==
  /\ wal.busy = "destroy"
  /\ wal.running # ""
  /\ wal' = [wal EXCEPT
               !.running = "",
               !.queue = Tail(@),
               !.relays = @ \ {wal.running},
               !.log = Append(@, [ev |-> "end", k |-> wal.running]),
               !.destroyed =
                 [k \in DOMAIN @ \cup {wal.running} |->
                    IF k = wal.running
                    THEN (IF k \in DOMAIN @ THEN @[k] ELSE 0) + 1
                    ELSE @[k]]]
  /\ last' = [WalLast("asset.destroy") EXCEPT !.name = wal.running]
  /\ UNCHANGED managerVars

\* Lines 80-83.  closeFails: store.close() rejects, after the seed has been
\* released.
Wallet_destroyRelease(closeFails) ==
  /\ wal.busy = "destroy"
  /\ Awaited(wal)
  /\ IF closeFails
     THEN /\ wal' = [wal EXCEPT !.busy = "", !.seed = FALSE,
                                !.queue = <<>>, !.running = "",
                                !.log = Append(@, [ev |-> "seed", k |-> ""])]
          /\ last' = Fail([WalLast("destroy") EXCEPT !.names = wal.keys,
                                                     !.fault = "close"],
                          "UpstreamFailure")
     ELSE /\ wal' = [wal EXCEPT !.busy = "", !.seed = FALSE,
                                !.store = FALSE, !.payNull = TRUE,
                                !.keys = <<>>,
                                !.queue = <<>>, !.running = "",
                                !.log = @ \o <<[ev |-> "seed", k |-> ""],
                                               [ev |-> "close", k |-> ""]>>]
          /\ last' = [WalLast("destroy") EXCEPT !.names = wal.keys]
  /\ UNCHANGED managerVars

(***************************************************************************)
(* Wallet.exportWallet (wallet.js:119-167).  `this.pay.each(async ...)`    *)
(* gives one settled result per registered asset, in registry order: a     *)
(* result carries `value` when the callback resolved and `reason` when it  *)
(* rejected.  "" stands for undefined and the other falsy values.          *)
(***************************************************************************)
\* How the export of one asset settles: its record, or a rejection with an
\* Error, or a rejection that carries no reason (`reject()`).
ExportOutcomes == {"ok", "error", "noReason"}

\* The settled result of the callback for the asset key.
Settled(key, outcome) ==
  CASE outcome = "ok" -> [value |-> key, reason |-> ""]
    [] outcome = "error" -> [value |-> "", reason |-> "err:" \o key]
    [] OTHER -> [value |-> "", reason |-> ""]

\* AssetList.each: the settled results in registry order.
Each(keys, outs) == [i \in 1..Len(keys) |-> Settled(keys[i], outs[keys[i]])]

\* JS truthiness of a string or undefined.
Truthy(x) == x # ""

RECURSIVE CollectValues(_)
\* `if (exp.value) return assets.push(exp.value)`
CollectValues(results) ==
  IF results = <<>> THEN <<>>
  ELSE (IF Truthy(Head(results).value) THEN <<Head(results).value>> ELSE <<>>)
         \o CollectValues(Tail(results))

RECURSIVE CollectReasons(_)
\* `if (exp.reason) return exportErrors.push(exp.reason)`, reached when the
\* result has no truthy value.
CollectReasons(results) ==
  IF results = <<>> THEN <<>>
  ELSE (IF ~Truthy(Head(results).value) /\ Truthy(Head(results).reason)
        THEN <<Head(results).reason>> ELSE <<>>)
         \o CollectReasons(Tail(results))

\* outs: how the export of each registered asset settles.
Wallet_exportWallet(outs) ==
  /\ wal.busy = ""
  /\ wal' = wal
  /\ IF wal.payNull
     THEN /\ \A k \in DOMAIN outs : outs[k] = "ok"
          /\ last' = Fail(WalLast("exportWallet"), "TypeError")
     ELSE IF ~wal.seed \/ ~wal.store
     THEN /\ \A k \in DOMAIN outs : outs[k] = "ok"
          /\ last' = Fail(WalLast("exportWallet"), "TypeError")
     ELSE /\ \A k \in DOMAIN outs : k \notin SeqToSet(wal.keys) => outs[k] = "ok"
          /\ last' = [WalLast("exportWallet") EXCEPT
                        !.names = wal.keys,
                        !.record =
                          [assets |-> CollectValues(Each(wal.keys, outs)),
                           assetKeys |-> wal.keys,
                           exportErrors |->
                             CollectReasons(Each(wal.keys, outs)),
                           outs |-> outs]]
  /\ UNCHANGED managerVars

(***************************************************************************)
(* Wallet.syncHistory and Wallet._sync (wallet.js:93-113).  One unit of    *)
(* synchronization is one call of asset.syncTransactions: unit 0 of an     *)
(* asset is the asset itself, unit i its i-th token.  slog is the trace of *)
(* the running syncHistory: "start" when a unit's syncTransactions is      *)
(* called, "synced" when 'asset-synced' is emitted.  syncing holds, per    *)
(* asset whose _sync was started, the unit it is at and whether that unit  *)
(* is running, the asset is done, or the unit failed.                      *)
(***************************************************************************)
\* asset.getTokens(): the token names of the asset in Map order.
AssetTokens(k) == IF k = "eth" THEN <<"usdt", "xaut">> ELSE <<>>

\* The token of unit pos of asset k, "" for the asset-level unit.
UnitToken(k, pos) == IF pos = 0 THEN "" ELSE AssetTokens(k)[pos]

SyncEntry(ev, k, pos) == [ev |-> ev, asset |-> k, token |-> UnitToken(k, pos)]

\* syncing with asset k put at unit pos in state st.
SyncingSet(m, k, pos, st) ==
  [a \in DOMAIN m \cup {k} |-> IF a = k THEN [pos |-> pos, st |-> st] ELSE m[a]]

\* _sync(opts, asset) up to its first await: the tokens are read and the
\* asset-level syncTransactions is called.
_syncBegin(w, k) ==
  [w EXCEPT !.syncing = SyncingSet(@, k, 0, "running"),
            !.slog = Append(@, SyncEntry("start", k, 0))]

\* Mutant of _syncSettles: 'asset-synced' is emitted for a unit whose sync
\* failed as well.
_syncSettlesEmitsAlways(w, k, ok) ==
  LET pos == w.syncing[k].pos IN
    IF ~ok
    THEN [w EXCEPT !.syncing = SyncingSet(@, k, pos, "failed"),
                   !.slog = Append(@, SyncEntry("synced", k, pos))]
    ELSE IF pos < Len(AssetTokens(k))
    THEN [w EXCEPT !.syncing = SyncingSet(@, k, pos + 1, "running"),
                   !.slog = @ \o <<SyncEntry("synced", k, pos),
                                   SyncEntry("start", k, pos + 1)>>]
    ELSE [w EXCEPT !.syncing = SyncingSet(@, k, pos, "done"),
                   !.slog = Append(@, SyncEntry("synced", k, pos))]

\* _sync resuming from an await: the running unit of asset k has settled.
\* A rejection leaves _sync at once; otherwise 'asset-synced' is emitted for
\* the unit and the syncTransactions of the next token, if any, is called.
_syncSettles(w, k, ok) ==
  LET pos == w.syncing[k].pos IN
    IF ~ok
    THEN [w EXCEPT !.syncing = SyncingSet(@, k, pos, "failed")]
    ELSE IF pos < Len(AssetTokens(k))
    THEN [w EXCEPT !.syncing = SyncingSet(@, k, pos + 1, "running"),
                   !.slog = @ \o <<SyncEntry("synced", k, pos),
                                   SyncEntry("start", k, pos + 1)>>]
    ELSE [w EXCEPT !.syncing = SyncingSet(@, k, pos, "done"),
                   !.slog = Append(@, SyncEntry("synced", k, pos))]

\* The facade with a fresh syncHistory under way.
SyncStarted(w, assetOpt, queue) ==
  [w EXCEPT !.busy = "sync", !.sasset = assetOpt, !.squeue = queue,
            !.slog = <<>>,
            !.syncing = [k \in {} |-> [pos |-> 0, st |-> "done"]]]

\* AssetList.each(fn) during syncHistory: the assets whose callback may be
\* started now.  Assets may be processed concurrently, so any asset not yet
\* started may be.
EachMayStart(w) == w.squeue

\* syncHistory(opts).  assetOpt: opts.asset, "" when none is named.
Wallet_syncHistory(assetOpt) ==
  /\ wal.busy = ""
  /\ IF wal.payNull
     THEN /\ wal' = wal
          /\ last' = Fail([WalLast("syncHistory") EXCEPT !.name = assetOpt],
                          "TypeError")
     ELSE IF assetOpt # "" /\ assetOpt \notin SeqToSet(wal.keys)
     THEN /\ wal' = wal
          /\ last' = Fail([WalLast("syncHistory") EXCEPT !.name = assetOpt],
                          "NotFound")
     ELSE IF assetOpt # ""
     THEN /\ wal' = _syncBegin(SyncStarted(wal, assetOpt, {}), assetOpt)
          /\ last' = [WalLast("syncHistory:start") EXCEPT !.name = assetOpt,
                                                         !.names = wal.keys]
     ELSE /\ wal' = SyncStarted(wal, "", SeqToSet(wal.keys))
          /\ last' = [WalLast("syncHistory:start") EXCEPT !.names = wal.keys]
  /\ UNCHANGED managerVars

\* each starts the callback of asset k: `this._sync(opts, asset)`.
Wallet_syncAssetBegin(k) ==
  /\ wal.busy = "sync"
  /\ k \in EachMayStart(wal)
  /\ wal' = _syncBegin([wal EXCEPT !.squeue = @ \ {k}], k)
  /\ last' = [WalLast("_sync:start") EXCEPT !.name = k]
  /\ UNCHANGED managerVars

\* asset.syncTransactions of the running unit of asset k settles.
Wallet_syncSettles(k, ok) ==
  /\ wal.busy = "sync"
  /\ k \in DOMAIN wal.syncing
  /\ wal.syncing[k].st = "running"
  /\ wal' = _syncSettles(wal, k, ok)
  /\ last' = IF ok THEN [WalLast("syncTransactions") EXCEPT !.name = k]
             ELSE Fail([WalLast("syncTransactions") EXCEPT !.name = k],
                       "UpstreamFailure")
  /\ UNCHANGED managerVars

\* syncHistory settles: every _sync it started has settled.  With a named
\* asset it rejects when that asset's _sync rejected.
Wallet_syncHistoryEnd ==
  /\ wal.busy = "sync"
  /\ wal.squeue = {}
  /\ \A k \in DOMAIN wal.syncing : wal.syncing[k].st # "running"
  /\ wal' = [wal EXCEPT !.busy = "", !.sasset = "", !.slog = <<>>,
                        !.syncing = [k \in {} |-> [pos |-> 0, st |-> "done"]]]
  /\ \E l \in {[WalLast("syncHistory") EXCEPT
                  !.name = wal.sasset, !.names = wal.keys,
                  !.record = [log |-> wal.slog, syncing |-> wal.syncing]]} :
       last' = IF wal.sasset # "" /\ wal.syncing[wal.sasset].st = "failed"
               THEN Fail(l, "UpstreamFailure") ELSE l
  /\ UNCHANGED managerVars

(***************************************************************************)
(* The tokens of one payment asset (WalletPay._tokens, wallet-pay.js): an  *)
(* insertion-ordered Map from token name to token.  A token is known by    *)
(* its name and its identity; a token class without name has name "".      *)
(***************************************************************************)
TokenNames == {"usdt", "xaut", "eurt"}

Tokens == {[name |-> n, id |-> i] : n \in TokenNames \cup {""}, i \in {1, 2}}

\* The token lists handed to loadToken (config.token).
TokenLists ==
  {<<t>> : t \in Tokens} \cup {<<t, u>> : t \in Tokens, u \in Tokens}

\* this._tokens.has(name)
TokHas(m, name) == \E i \in 1..Len(m) : m[i].name = name

\* this._tokens.set(name, token): an existing key keeps its place and gets
\* the new token, a new key is appended.
TokSet(m, t) ==
  IF TokHas(m, t.name)
  THEN [i \in 1..Len(m) |-> IF m[i].name = t.name THEN t ELSE m[i]]
  ELSE Append(m, t)

\* addToken(token) (wallet-pay.js:154-157): throws 'Token already exists'
\* when `!this._tokens.has(token.name)`, and sets the token otherwise.
addToken(t) ==
  /\ IF ~TokHas(_tokens, t.name)
     THEN /\ _tokens' = _tokens
          /\ last' = Fail([WalLast("addToken") EXCEPT !.name = t.name,
                              !.mat = TokHas(_tokens, t.name)],
                          "AlreadyExists")
     ELSE /\ _tokens' = TokSet(_tokens, t)
          /\ last' = [WalLast("addToken") EXCEPT !.name = t.name,
                         !.mat = TokHas(_tokens, t.name)]
  /\ UNCHANGED <<storeOpen, walletList, walletExp, _wallets, facades, _subs,
                 listeners, created, inflight, wal>>

\* tokens.forEach of loadToken (wallet-pay.js:159-164): a token without name
\* throws and ends the loop, the tokens before it stay set.
RECURSIVE LoadFrom(_, _)
LoadFrom(m, ts) ==
  IF ts = <<>> THEN [err |-> "", m |-> m]
  ELSE IF Head(ts).name = "" THEN [err |-> "BadArguments", m |-> m]
  ELSE LoadFrom(TokSet(m, Head(ts)), Tail(ts))

loadToken(ts) ==
  \E r \in {LoadFrom(_tokens, ts)} :
    /\ _tokens' = r.m
    /\ last' = IF r.err # ""
               THEN Fail([WalLast("loadToken") EXCEPT !.size = Len(ts)], r.err)
               ELSE [WalLast("loadToken") EXCEPT !.size = Len(ts)]
    /\ UNCHANGED <<storeOpen, walletList, walletExp, _wallets, facades,
                   _subs, listeners, created, inflight, wal>>

(***************************************************************************)
(* Spec: the manager's lifecycle operations, with every collaborator       *)
(* failure of createWallet and loadWallet, and the dispatch of requests    *)
(* that carry no subscription control.                                     *)
(***************************************************************************)
Next ==
  \/ init
  \/ \E nameOpt \in NameOpts, withReq \in BOOLEAN,
        fault \in {"none", "loader", "export", "putExport", "putIndex"} :
       createWallet(nameOpt, withReq, fault)
  \/ \E failAt \in 0..MaxFacades : shutdown(failAt)
  \/ resumeWallets(0)
  \/ \E name \in WalletNames : removeWallet(name)
  \/ \E name \in WalletNames, fault \in {"none", "loader"} :
       loadWallet([all |-> FALSE, name |-> name], fault)
  \/ loadWallet([all |-> TRUE, name |-> ""], "none")
  \/ \E req \in PlainRequests : \E out \in OutsFor(req) :
       \E fault \in FaultsFor(req) : callWallet(req, out, fault)

Spec == Init /\ [][Next]_vars

(***************************************************************************)
(* SpecDispatch: the dispatcher and the subscription multiplexer, over     *)
(* wallets that are created, shut down and lazily loaded again.            *)
(***************************************************************************)
NextDispatch ==
  \/ init
  \/ \E nameOpt \in NameOpts, withReq \in BOOLEAN :
       createWallet(nameOpt, withReq, "none")
  \/ shutdown(0)
  \/ \E req \in Requests : \E out \in OutsFor(req) :
       \E fault \in FaultsFor(req) : callWallet(req, out, fault)

SpecDispatch == Init /\ [][NextDispatch]_vars

(***************************************************************************)
(* SpecConc: callWallet operations that interleave at the suspension of    *)
(* their lazy load.  The manager is constructed on a store that a previous *)
(* run left with wallets in it.                                            *)
(***************************************************************************)
\* The index a previous run persisted.
PersistedLists == {<<"b">>, <<"default", "b">>}

\* The export record of the i-th wallet of a persisted index.
PersistedExport(list, n) ==
  [name |-> n, seed |-> CHOOSE i \in 1..Len(list) : list[i] = n]

InitConc ==
  /\ storeOpen = FALSE
  /\ walletList \in PersistedLists
  /\ walletExp = [n \in {walletList[i] : i \in 1..Len(walletList)} |->
                    PersistedExport(walletList, n)]
  /\ _wallets = <<>>
  /\ facades = <<>>
  /\ _subs = [k \in {} |-> BootHandler(0, "", "", "")]
  /\ listeners = EmptyBag
  /\ last = NoLast
  /\ created = <<>>
  /\ inflight = [p \in Procs |-> Idle]
  /\ wal = 0
  /\ _tokens = <<>>

\* The requests of the interleaved operations: one method call per wallet.
ConcRequests ==
  {Req(n, "pay", "btc", "getBalance", NoParams) : n \in WalletNames}

NextConc ==
  \/ init
  \/ shutdown(0)
  \/ \E req \in ConcRequests : \E out \in OutsFor(req) :
       callWallet(req, out, "none")
  \/ \E p \in Procs, req \in ConcRequests : callWalletBegin(p, req)
  \/ \E p \in Procs : \E out \in Outs \cup {NoOut} :
       callWalletEnd(p, out, "none")

SpecConc == InitConc /\ [][NextConc]_vars

(***************************************************************************)
(* SpecEvents: wallets created and lazily loaded with a caller context,    *)
(* subscription control, and the events their assets emit.                 *)
(***************************************************************************)
\* Subscription control that names an event, on the facade and on an asset.
EventRequests ==
  UNION {
    {Req(n, ns, "", "", Arr(<<ev>>)) : ns \in {"on", "off"}, ev \in EventNames}
      \cup {Req(n, "pay", "btc", m, Arr(<<ev>>)) :
              m \in {"on", "off"}, ev \in EventNames}
    : n \in WalletNames}

\* The argument an event carries.
Txs == {"tx1"}

NextEvents ==
  \/ init
  \/ \E nameOpt \in NameOpts, withReq \in BOOLEAN :
       createWallet(nameOpt, withReq, "none")
  \/ shutdown(0)
  \/ \E req \in EventRequests : callWallet(req, NoOut, "none")
  \/ \E f \in 1..MaxFacades, i \in 1..Len(Assets), ev \in EventNames,
        tx \in Txs, notifyFails \in BOOLEAN :
       emit(f, Assets[i], ev, tx, notifyFails)

SpecEvents == Init /\ [][NextEvents]_vars

(***************************************************************************)
(* SpecCreate: createWallet and removeWallet interleaved at their awaits.  *)
(***************************************************************************)
NextCreate ==
  \/ init
  \/ \E p \in Procs, nameOpt \in NameOpts, withReq \in BOOLEAN :
       createWalletBegin(p, nameOpt, withReq)
  \/ \E p \in Procs, fault \in {"none", "loader", "export"} :
       createWalletExported(p, fault)
  \/ \E p \in Procs : createWalletRead(p)
  \/ \E p \in Procs, ok \in BOOLEAN : createWalletPut(p, ok)
  \/ \E p \in Procs, name \in WalletNames \cup {"0"} : removeWalletBegin(p, name)
  \/ \E p \in Procs : removeWalletPut(p)

SpecCreate == Init /\ [][NextCreate]_vars

(***************************************************************************)
(* SpecWallet: one Wallet facade, from its construction on.                *)
(***************************************************************************)
InitWallet ==
  /\ storeOpen = FALSE
  /\ walletList = <<>>
  /\ walletExp = [n \in {} |-> exportWallet(NewFacade(n, 0))]
  /\ _wallets = <<>>
  /\ facades = <<>>
  /\ _subs = [k \in {} |-> BootHandler(0, "", "", "")]
  /\ listeners = EmptyBag
  /\ last = NoLast
  /\ created = <<>>
  /\ inflight = [p \in Procs |-> Idle]
  /\ wal \in {NewWallet(assets) : assets \in AssetInputs}
  /\ _tokens = <<>>

NextWallet ==
  \/ Wallet_initialize
  \/ \E k \in {"btc", "eth"}, ok \in BOOLEAN : Wallet_initAssetSettles(k, ok)
  \/ Wallet_initializeEnd
  \/ \E k \in {"btc", "eth"} : Wallet_addAsset(k)
  \/ Wallet_destroy
  \/ \E k \in {"btc", "eth"} : Wallet_assetDestroyBegin(k)
  \/ Wallet_assetDestroyEnd
  \/ \E closeFails \in BOOLEAN : Wallet_destroyRelease(closeFails)
  \/ \E outs \in [{"btc", "eth"} -> ExportOutcomes] : Wallet_exportWallet(outs)
  \/ \E assetOpt \in {"", "btc", "eth"} : Wallet_syncHistory(assetOpt)
  \/ \E k \in {"btc", "eth"} : Wallet_syncAssetBegin(k)
  \/ \E k \in {"btc", "eth"}, ok \in BOOLEAN : Wallet_syncSettles(k, ok)
  \/ Wallet_syncHistoryEnd

SpecWallet == InitWallet /\ [][NextWallet]_vars

(***************************************************************************)
(* SpecTokens: the token map of one payment asset, filled by loadToken     *)
(* (the constructor calls it with config.token) and by addToken.           *)
(***************************************************************************)
NextTokens ==
  \/ \E ts \in TokenLists : loadToken(ts)
  \/ \E t \in Tokens : addToken(t)

SpecTokens == Init /\ [][NextTokens]_vars

(***************************************************************************)
(* Claims about the lifecycle operations, checked under Spec.              *)
(***************************************************************************)
NoDuplicates(list) ==
  \A i, j \in 1..Len(list) : list[i] = list[j] => i = j

\* C1: after any sequence of successful createWallet calls, getWalletList
\* holds exactly the names of those calls, in the order of creation, and no
\* name twice.
C1_ListIsCreationOrder ==
  /\ getWalletList = created
  /\ NoDuplicates(getWalletList)

\* C1 witness: two wallets with different names have been created.
C1_TwoCreated ==
  /\ Len(created) = 2
  /\ created[1] # created[2]
  /\ last.op = "createWallet" /\ last.res = "ok"

\* C2: createWallet with a name that is in the persisted index fails, with
\* AlreadyExists unless the loader or the export rejected first, and leaves
\* the index and every stored export record as they were; the name may be
\* materialized in memory or only in the index.
C2_DuplicateCreateRejected ==
  [][(last'.op = "createWallet" /\ last'.inIndex) =>
       /\ last'.res = "err"
       /\ last'.fault = "none" => last'.err = "AlreadyExists"
       /\ walletList' = walletList
       /\ walletExp' = walletExp]_vars

\* C2 witness: a create was rejected for a name that was in the index and
\* not in memory.
C2_RejectedIndexOnly ==
  /\ last.op = "createWallet"
  /\ last.inIndex /\ ~last.mat
  /\ last.err = "AlreadyExists"

\* C3 (as claimed): a createWallet that fails leaves the in-memory wallet map
\* as it was before the call.
C3_FailedCreateKeepsMap ==
  [][(last'.op = "createWallet" /\ last'.res = "err") =>
       _wallets' = _wallets]_vars

\* C4 (as claimed): after removeWallet(name) the index no longer contains
\* name.
C4_RemovedFromIndex ==
  last.op = "removeWallet" => ~Includes(getWalletList, last.name)

\* C10 (as claimed): shutdown destroys every facade of the in-memory map
\* exactly once, returns their names and leaves the map empty.
C10_ShutdownDestroysOnce ==
  [][last'.op = "shutdown" =>
       /\ last'.res = "ok"
       /\ last'.names = MapKeys(_wallets)
       /\ _wallets' = <<>>
       /\ \A i \in 1..Len(_wallets) :
            /\ facades'[_wallets[i].fid].destroys = 1
            /\ ~facades'[_wallets[i].fid].pay]_vars

\* C11 (as claimed): loadWallet with options.all on an index of one or more
\* names, each with a stored export record, constructs a facade from each
\* name's record, leaves every indexed name in the in-memory map and returns
\* the names; loadWallet naming a wallet without export record fails with
\* NotFound.
C11_LoadAllMaterializesIndex ==
  [][last'.op = "loadWallet" =>
       IF last'.withReq
       THEN (/\ Len(walletList) >= 1
             /\ \A i \in 1..Len(walletList) : HasExport(walletList[i])) =>
            /\ last'.res = "ok"
            /\ last'.names = walletList
            /\ Len(facades') = Len(facades) + Len(walletList)
            /\ \A i \in 1..Len(walletList) :
                 /\ MapHas(_wallets', walletList[i])
                 /\ facades'[MapFacade(_wallets', walletList[i])].seed =
                      walletExp[walletList[i]].seed
       ELSE ~last'.hadExp => last'.err = "NotFound"]_vars

\* C12 (as claimed): every facade held in the in-memory wallet map is live:
\* its destroy has not been called.
C12_MapHoldsLiveFacades ==
  \A i \in 1..Len(_wallets) : facades[_wallets[i].fid].destroys = 0

\* A facade is live until its destroy has completed.
Live(f) == facades[f].pay

InMap(f) == \E i \in 1..Len(_wallets) : _wallets[i].fid = f

\* C13 (as claimed): under every interleaving of callWallet operations that
\* name the same wallet, every facade the loader constructed is the one
\* held in the in-memory map or has been destroyed, so at most one live
\* facade exists per name.
C13_OneLiveFacadePerName ==
  /\ \A f \in 1..Len(facades) : Live(f) => InMap(f)
  /\ \A f, g \in 1..Len(facades) :
       (Live(f) /\ Live(g) /\ facades[f].walletName = facades[g].walletName)
         => f = g

(***************************************************************************)
(* Claims about the dispatcher and the subscription multiplexer, checked   *)
(* under SpecDispatch.  The pre-state of a callWallet step is read from    *)
(* the unprimed variables, its request and outcome from last'.             *)
(***************************************************************************)
\* The handlers of a bag that _subscribe attached (the bootstrap handlers
\* are the others).
SubHandlers(L) == [h \in {x \in DOMAIN L : x.safe} |-> L[h]]

\* The request addresses subscription control on the facade itself.
WalletLevel(req) == req.namespace \in {"on", "off"}

\* The request addresses subscription control on the asset "btc".
ResourceLevel(req) ==
  req.namespace = "pay" /\ req.resource = "btc" /\ req.method \in {"on", "off"}

\* The request carries an event name as the first of its positional params.
NamesEvent(req) ==
  req.params.isArray /\ req.params.items # <<>> /\ req.params.items[1] # ""

\* The subscription key the specification gives for a request.
KeyOf(req) ==
  IF WalletLevel(req)
  THEN req.name \o ":" \o req.params.items[1]
  ELSE req.name \o ":" \o req.namespace \o "-" \o req.resource \o ":"
         \o req.params.items[1]

IsOn(req) == req.namespace = "on" \/ (req.namespace = "pay" /\ req.method = "on")

\* The step is a callWallet whose dispatch reached _subscribe / _unsubscribe
\* with an event name: the wallet was found or loaded, and for a resource
\* level request the facade still exposes its asset registry.
SubControlStep ==
  /\ last'.op = "callWallet"
  /\ last'.target # 0
  /\ NamesEvent(last'.req)
  /\ \/ WalletLevel(last'.req)
     \/ ResourceLevel(last'.req) /\ facades'[last'.target].pay

\* C5: callWallet naming a wallet that is not in memory fails with NotFound,
\* constructs no facade and leaves the map alone when no export record is
\* stored; otherwise (the loader not rejecting) a facade is constructed from
\* the stored export record, put in the map under the name, and the request
\* is dispatched on that facade.
C5_LazyLoad ==
  [][(last'.op = "callWallet" /\ ~last'.mat) =>
       IF last'.name \notin DOMAIN walletExp
       THEN /\ last'.err = "NotFound"
            /\ facades' = facades
            /\ _wallets' = _wallets
       ELSE last'.fault = "none" =>
            /\ Len(facades') = Len(facades) + 1
            /\ facades'[Len(facades')].walletName = last'.name
            /\ facades'[Len(facades')].seed = walletExp[last'.name].seed
            /\ \E i \in 1..Len(_wallets') :
                 _wallets'[i] = [name |-> last'.name, fid |-> Len(facades')]
            /\ last'.target = Len(facades')
            /\ (/\ last'.req.namespace = "pay"
                /\ last'.req.resource = "btc"
                /\ last'.req.method = "getBalance") =>
                 Len(last'.invoked) = 1]_vars

\* C5 witness: a request named a wallet that had an export record and no
\* facade in memory, and a method of the loaded facade's asset was invoked.
C5_LazilyLoadedAndInvoked ==
  /\ last.op = "callWallet"
  /\ ~last.mat /\ last.hadExp
  /\ last.res = "ok" /\ last.invoked # <<>>
  /\ MapFacade(_wallets, last.name) = last.loaded

\* C6: a request whose namespace, resource and method resolve invokes that
\* method exactly once, with the positional params spread or the structured
\* argument passed whole, and its result is the value the method resolved
\* with, or the failure the method rejected with.
C6_MethodInvokedOnce ==
  (/\ last.op = "callWallet"
   /\ last.target # 0
   /\ last.req.namespace = "pay" /\ last.req.resource = "btc"
   /\ last.req.method = "getBalance"
   /\ facades[last.target].pay) =>
    /\ Len(last.invoked) = 1
    /\ last.invoked[1].resource = "btc"
    /\ last.invoked[1].method = "getBalance"
    /\ IF last.req.params.isArray
       THEN /\ Len(last.invoked[1].args) = Len(last.req.params.items)
            /\ \A i \in 1..Len(last.req.params.items) :
                 last.invoked[1].args[i] =
                   [obj |-> FALSE, items |-> <<last.req.params.items[i]>>]
       ELSE last.invoked[1].args =
              <<[obj |-> TRUE, items |-> last.req.params.items]>>
    /\ last.ret = last.out.val
    /\ last.res = IF last.out.ok THEN "ok" ELSE "err"

\* C6 witness: a method was invoked with two positional arguments and
\* resolved.
C6_InvokedWithTwoArgs ==
  /\ last.op = "callWallet" /\ last.res = "ok"
  /\ Len(last.invoked) = 1
  /\ Len(last.invoked[1].args) = 2
  /\ last.ret = "v1"

\* C7: on a materialized wallet a namespace the facade does not expose gives
\* InvalidNamespace, a resource the namespace does not expose gives
\* InvalidResource, a method the resource does not expose gives
\* InvalidMethod; then no asset method is invoked and the subscription map
\* is unchanged.
C7_PathErrors ==
  [][(last'.op = "callWallet" /\ last'.mat) =>
       LET req == last'.req
           w == facades[MapFacade(_wallets, req.name)]
           noNs == \/ req.namespace = "nope"
                   \/ req.namespace = "pay" /\ ~w.pay
           noRes == /\ req.namespace = "pay" /\ w.pay
                    /\ req.resource = "nope"
           noMeth == /\ req.namespace = "pay" /\ w.pay
                     /\ req.resource = "btc"
                     /\ req.method = "nope"
       IN /\ noNs => last'.err = "InvalidNamespace"
          /\ noRes => last'.err = "InvalidResource"
          /\ noMeth => last'.err = "InvalidMethod"
          /\ (noNs \/ noRes \/ noMeth) =>
               /\ last'.res = "err"
               /\ last'.invoked = <<>>
               /\ _subs' = _subs
               /\ facades' = facades]_vars

\* C7 witness: a method that the asset does not expose was requested on a
\* materialized wallet.
C7_InvalidMethodSeen ==
  /\ last.op = "callWallet" /\ last.mat
  /\ last.req.method = "nope"
  /\ last.err = "InvalidMethod"

\* C8: a subscribe below the ceiling returns the key <name>:<event> (wallet
\* level) or <name>:<namespace>-<resource>:<event> (resource level) and
\* records under it a handler that is attached to the addressed emitter; an
\* unsubscribe for a key of the map removes that entry and no other; an
\* unsubscribe for a key without entry fails with NotFound and leaves the
\* map and the attached subscription handlers as they were.
C8_SubscribeUnsubscribe ==
  [][SubControlStep =>
       LET req == last'.req
           key == KeyOf(req)
       IN IF IsOn(req)
          THEN Cardinality(DOMAIN _subs) < MAX_SUB_SIZE =>
               /\ last'.res = "ok"
               /\ last'.ret = key
               /\ key \in DOMAIN _subs'
               /\ _subs'[key].key = key
               /\ _subs'[key].fid = last'.target
               /\ _subs'[key].ev = req.params.items[1]
               /\ _subs'[key].emitter =
                    IF WalletLevel(req) THEN "wallet" ELSE req.resource
               /\ CopiesIn(_subs'[key], listeners') >= 1
          ELSE IF key \in DOMAIN _subs
          THEN /\ last'.res = "ok"
               /\ DOMAIN _subs' = DOMAIN _subs \ {key}
               /\ \A k \in DOMAIN _subs' : _subs'[k] = _subs[k]
          ELSE /\ last'.err = "NotFound"
               /\ _subs' = _subs
               /\ SubHandlers(listeners') = SubHandlers(listeners)
               /\ last'.mat => listeners' = listeners]_vars

\* C8 witness: a resource-level unsubscribe removed an entry.
C8_ResourceUnsubscribed ==
  /\ last.op = "callWallet" /\ last.res = "ok"
  /\ last.req.namespace = "pay" /\ last.req.method = "off"
  /\ last.ret \notin DOMAIN _subs

\* C9: the subscription map never holds more than MAX_SUB_SIZE entries; a
\* subscribe below the ceiling succeeds, and a subscribe at the ceiling
\* fails with SubscriptionLimitExceeded, attaches no subscription handler
\* and leaves the map as it was.
C9_SubscriptionCeiling ==
  [][/\ Cardinality(DOMAIN _subs') <= MAX_SUB_SIZE
     /\ (SubControlStep /\ IsOn(last'.req)) =>
          IF Cardinality(DOMAIN _subs) = MAX_SUB_SIZE
          THEN /\ last'.err = "SubscriptionLimitExceeded"
               /\ _subs' = _subs
               /\ SubHandlers(listeners') = SubHandlers(listeners)
          ELSE /\ last'.res = "ok"
               /\ DOMAIN _subs' = DOMAIN _subs \cup {KeyOf(last'.req)}]_vars

\* C9 witness: the map is full and a subscribe has just been refused.
C9_RefusedAtCeiling ==
  /\ Cardinality(DOMAIN _subs) = MAX_SUB_SIZE
  /\ last.op = "callWallet"
  /\ last.err = "SubscriptionLimitExceeded"

(***************************************************************************)
(* Claims about event forwarding, checked under SpecEvents.                *)
(***************************************************************************)
\* C14 (as claimed): a notify that throws while an event is forwarded never
\* reaches the emitting asset: the emit returns normally and every listener
\* of the event runs, whichever handler of the manager forwards it.
C14_NotifyFailureContained ==
  [][last'.op = "emit" => (last'.res = "ok" /\ last'.skipped = 0)]_vars

\* The key the specification gives the bootstrap subscription of asset k
\* and event ev of a wallet.
BootKeyOf(walletName, k, ev) == walletName \o ":pay-" \o k \o ":" \o ev

\* The facade f has a bootstrap handler on every asset for every pay event.
Bootstrapped(L, F, f) ==
  \A i \in 1..Len(Assets), j \in 1..Len(BootstrapEvents) :
    \E h \in DOMAIN L :
      /\ ~h.safe /\ h.fid = f
      /\ h.emitter = Assets[i] /\ h.ev = BootstrapEvents[j]
      /\ h.key = BootKeyOf(F[f].walletName, Assets[i],
                           BootstrapEvents[j])

\* C15: a wallet created with a caller context, or lazily loaded by a
\* callWallet, has a bootstrap handler on every asset for every pay event,
\* keyed <walletName>:pay-<k>:<ev>; a wallet created without caller context
\* has none; a bootstrap handler stays attached while its facade is not
\* destroyed; and every emission of ev by asset k is forwarded by each
\* attached bootstrap handler under its key with the event's arguments.
C15_BootstrapForwards ==
  [][/\ (last'.op = "createWallet" /\ last'.res = "ok") =>
          IF last'.withReq
          THEN Bootstrapped(listeners', facades', last'.target)
          ELSE \A h \in DOMAIN listeners' : h.fid # last'.target
     /\ (/\ last'.op = "callWallet" /\ last'.loaded # 0
         /\ facades'[last'.loaded].destroys = 0) =>
          Bootstrapped(listeners', facades', last'.loaded)
     /\ \A h \in DOMAIN listeners :
          (~h.safe /\ facades'[h.fid].destroys = 0) =>
            (h \in DOMAIN listeners' /\ listeners'[h] = listeners[h])
     /\ last'.op = "emit" =>
          \A h \in DOMAIN listeners :
            (/\ ~h.safe /\ h.fid = last'.target
             /\ h.emitter = last'.req.resource
             /\ h.ev = last'.req.params.items[1]) =>
              /\ h.key = BootKeyOf(last'.name, last'.req.resource,
                                   last'.req.params.items[1])
              /\ [key |-> h.key, args |-> <<last'.req.params.items[2]>>]
                   \in DOMAIN last'.notified]_vars

\* C15 witness: an asset of a lazily loaded wallet emitted an event and it
\* was forwarded under the bootstrap key.
C15_ForwardedAfterLazyLoad ==
  /\ last.op = "emit"
  /\ last.target # 0 /\ facades[last.target].seed # last.target
  /\ [key |-> "b:pay-btc:new-tx", args |-> <<"tx1">>] \in DOMAIN last.notified

\* C16 (as claimed): after an unsubscribe succeeds for a key, no handler
\* that a subscribe attached under that key remains on the target emitter,
\* whatever subscribes came before.
C16_UnsubscribeDetachesAll ==
  [][(SubControlStep /\ ~IsOn(last'.req) /\ last'.res = "ok") =>
       \A h \in DOMAIN listeners' :
         ~(/\ h.safe
           /\ h.fid = last'.target
           /\ h.key = KeyOf(last'.req))]_vars

\* C24 (as claimed): every handler the manager has attached to an emitter
\* and not detached, by subscribe or by the bootstrap subscription, is the
\* handler the subscription map records under its key, and the attached
\* handlers are never more than the configured maximum.
C24_AttachedHandlersAreRecorded ==
  /\ \A h \in DOMAIN listeners :
       CopiesIn(h, listeners) > 0 =>
         /\ h.key \in DOMAIN _subs
         /\ _subs[h.key] = h
         /\ CopiesIn(h, listeners) = 1
  /\ BagCardinality(listeners) <= MAX_SUB_SIZE

(***************************************************************************)
(* Claims about the Wallet facade, checked under SpecWallet.               *)
(***************************************************************************)
\* C17: the first initialize of a facade completes without failing whatever
\* assets fail to initialize; the registry then holds exactly the assets
\* whose initialize succeeded, each once; 'ready' is emitted once, by the
\* step that follows the settling of every asset, and never before.
C17_InitializeToleratesFailure ==
  [][/\ last'.op = "initialize" /\ ~wal.assetsNull =>
          /\ last'.res = "ok"
          /\ SeqToSet(wal'.keys) = SeqToSet(wal._assets) \ wal'.failed
          /\ Len(wal'.keys) = Cardinality(SeqToSet(wal'.keys))
          /\ wal'.ready = 1
     /\ wal'.ready # wal.ready =>
          /\ wal.ready = 0 /\ wal'.ready = 1
          /\ wal.pending = {}
          /\ wal.failed \cup SeqToSet(wal.keys) = SeqToSet(wal._assets)
     /\ wal.busy = "initialize" =>
          wal'.failed \cap SeqToSet(wal'.keys) = {}]_vars

\* C17 witness: initialize completed with one asset failed and the other
\* one registered.
C17_OneFailedOneRegistered ==
  /\ last.op = "initialize" /\ last.res = "ok"
  /\ wal.ready = 1
  /\ Cardinality(wal.failed) = 1
  /\ Len(wal.keys) = 1

RECURSIVE AssetsInTurn(_)
AssetsInTurn(keys) ==
  IF keys = <<>> THEN <<>>
  ELSE <<[ev |-> "begin", k |-> Head(keys)], [ev |-> "end", k |-> Head(keys)]>>
         \o AssetsInTurn(Tail(keys))

C22_IndexedNamesHaveExport ==
  \A i \in 1..Len(walletList) :
    walletList[i] # "" => HasExport(walletList[i])

\* C22 witness: a createWallet is between its two store writes, its export
\* record written and its name not yet in the index, while the index holds
\* another wallet.
C22_BetweenTheWrites ==
  \E p \in Procs :
    /\ inflight[p].pc = "putIndex"
    /\ HasExport(inflight[p].req.name)
    /\ ~Includes(walletList, inflight[p].req.name)
    /\ walletList # <<>>

\* C23 (as claimed): when a createWallet completes successfully, the
\* persisted index holds its name and still holds the name of every wallet
\* created before that was in the index: no index update is lost to the
\* read-modify-write of another createWallet.
C23_NoIndexUpdateLost ==
  [][\A p \in Procs :
       (inflight[p].pc = "putIndex" /\ inflight'[p].pc = "idle"
          /\ last'.op = "createWallet" /\ last'.res = "ok") =>
         /\ Includes(walletList', inflight[p].req.name)
         /\ \A i \in 1..Len(created) :
              Includes(walletList, created[i]) =>
                Includes(walletList', created[i])]_vars

(***************************************************************************)
(* syncHistory, checked under SpecWallet.                                  *)
(***************************************************************************)
\* The entries of a sync trace that name asset k.
LogOf(log, k) == SelectSeq(log, LAMBDA e : e.asset = k)

\* The trace of a complete sync of asset k: the asset-level unit is started
\* and signalled, then each token in token order is started and signalled.
RECURSIVE UnitsInTurn(_, _)
UnitsInTurn(k, tokens) ==
  IF tokens = <<>> THEN <<>>
  ELSE <<[ev |-> "start", asset |-> k, token |-> Head(tokens)],
         [ev |-> "synced", asset |-> k, token |-> Head(tokens)]>>
         \o UnitsInTurn(k, Tail(tokens))

SyncInTurn(k) ==
  <<[ev |-> "start", asset |-> k, token |-> ""],
    [ev |-> "synced", asset |-> k, token |-> ""]>>
    \o UnitsInTurn(k, AssetTokens(k))

IsPrefix(a, b) == Len(a) <= Len(b) /\ a = SubSeq(b, 1, Len(a))

\* C21: a syncHistory naming a registered asset starts the sync of that
\* asset only, one naming an asset that is not registered fails and syncs
\* nothing, and one naming none has synced every registered asset when it
\* settles.  At every moment the units of each asset appear in turn: the
\* asset-level sync is started and 'asset-synced' naming the asset is
\* emitted before the first token sync starts, then the tokens follow in
\* token order, each signalled with asset and token before the next starts.
\* A unit whose sync fails gets no signal and ends the sync of its asset.
C21_SyncUnitsInTurn ==
  [][/\ (last'.op = "syncHistory:start" /\ last'.name # "") =>
          /\ last'.name \in SeqToSet(wal.keys)
          /\ DOMAIN wal'.syncing = {last'.name}
          /\ wal'.squeue = {}
     /\ (last'.op = "syncHistory:start" /\ last'.name = "") =>
          wal'.squeue = SeqToSet(wal.keys)
     /\ (last'.op = "syncHistory" /\ last'.name # "" /\ ~wal.payNull
           /\ last'.name \notin SeqToSet(wal.keys)) =>
          /\ last'.res = "err"
          /\ wal' = wal
     /\ (last'.op = "syncHistory" /\ wal.busy = "sync") =>
          /\ DOMAIN wal.syncing =
               IF last'.name = "" THEN SeqToSet(wal.keys) ELSE {last'.name}
          /\ \A k \in DOMAIN wal.syncing :
               LogOf(last'.record.log, k) =
                 IF wal.syncing[k].st = "done" THEN SyncInTurn(k)
                 ELSE SubSeq(SyncInTurn(k), 1, 2 * wal.syncing[k].pos + 1)
     /\ wal'.busy = "sync" =>
          \A k \in DOMAIN wal'.syncing :
            IsPrefix(LogOf(wal'.slog, k), SyncInTurn(k))
     /\ (last'.op = "syncTransactions" /\ last'.res = "err") =>
          /\ wal'.slog = wal.slog
          /\ wal'.syncing[last'.name].st = "failed"
     /\ \A k \in DOMAIN wal.syncing :
          (wal.syncing[k].st = "failed" /\ wal'.busy = "sync") =>
            LogOf(wal'.slog, k) = LogOf(wal.slog, k)]_vars

\* C21 witness: a syncHistory over two registered assets has settled, the
\* asset with two tokens synced in full and the other failed at its
\* asset-level unit.
C21_SyncedAllWithOneFailure ==
  /\ last.op = "syncHistory" /\ last.name = "" /\ last.res = "ok"
  /\ Len(last.names) = 2
  /\ last.record.syncing["eth"].st = "done"
  /\ Len(LogOf(last.record.log, "eth")) = 6
  /\ last.record.syncing["btc"].st = "failed"

(***************************************************************************)
(* Claims about the token map, checked under SpecTokens.                   *)
(***************************************************************************)
\* C19 (as claimed): registering a token whose name is already in the map
\* fails with AlreadyExists and leaves the map as it was, registering a
\* token with a new name succeeds and adds it, and no registered token is
\* ever replaced.
C19_TokenNamesUnique ==
  [][/\ last'.op = "addToken" =>
          IF TokHas(_tokens, last'.name)
          THEN last'.err = "AlreadyExists" /\ _tokens' = _tokens
          ELSE /\ last'.res = "ok"
               /\ Len(_tokens') = Len(_tokens) + 1
               /\ _tokens'[Len(_tokens')].name = last'.name
     /\ \A i \in 1..Len(_tokens) :
          i \in 1..Len(_tokens') /\ _tokens'[i] = _tokens[i]]_vars

====
